---- MODULE Spec2Model ----
(***************************************************************************)
(* State-machine model of the AIDungeonMaster game screens.                *)
(*                                                                         *)
(* The screen with demo fallback (src/unnamed/part_003) is a React         *)
(* component whose state is six useState cells and whose operations are    *)
(* the two async handlers startNewGame and makeChoice.  An async handler   *)
(* runs synchronously up to its `await axios.post(...)`, which puts one    *)
(* request in flight; the rest of the handler (the code after the await,   *)
(* its catch and its finally) runs as one step when that request resolves. *)
(***************************************************************************)
EXTENDS Integers, Sequences, FiniteSets, TLC

(***************************************************************************)
(* Bounds of the model.                                                    *)
(***************************************************************************)
MaxClock == 2       \* readings of the wall clock by makeChoice
MaxInflight == 2    \* requests awaiting their response at the same time
MaxSessions == 2    \* session ids the backend hands out

(***************************************************************************)
(* Values.                                                                 *)
(***************************************************************************)
\* JavaScript null of useState(null) for sessionId; real ids are positive.
NullSid == 0
\* JavaScript null of useState(null) for error.
NullErr == "<null>"
\* JavaScript undefined, the value of choices[i] for i out of range.
Undefined == "<undefined>"

\* Template-literal conversion `${v}`: undefined prints as "undefined".
TemplateStr(v) == IF v = Undefined THEN "undefined" ELSE v

\* choices[choiceIndex] with JavaScript semantics: 0-based, undefined when
\* the index is outside the array.
ChoiceAt(choices, choiceIndex) ==
    IF choiceIndex >= 0 /\ choiceIndex < Len(choices)
    THEN choices[choiceIndex + 1]
    ELSE Undefined

\* useState(null) for gameState: no story, no choices, no stats.
NoStats == [name |-> Undefined, health |-> -1, gold |-> -1, level |-> -1]
NullGameState == [isNull |-> TRUE, story |-> <<>>, choices |-> <<>>, stats |-> NoStats]

\* const demoData
demoData ==
    [isNull |-> FALSE,
     story |-> <<"You stand at the entrance of a dark, ancient dungeon. The Dungeon Master awaits your decision.">>,
     choices |-> <<"Enter the dungeon cautiously",
                   "Examine the entrance for traps",
                   "Call out to announce your presence">>,
     stats |-> [name |-> "Adventurer", health |-> 100, gold |-> 50, level |-> 1]]

\* The story and choices synthesized locally by a demo-mode choice.
DemoNextStory(choiceText) ==
    <<"You chose: \"", TemplateStr(choiceText), "\"\n\nThe adventure continues in demo mode...">>
DemoNextChoices ==
    <<"Continue exploring", "Check your surroundings", "Try something different">>

\* Response bodies of the backend: story, string[3] choices, player_stats.
Payload(p) ==
    [story |-> <<"backend story", ToString(p)>>,
     choices |-> <<"backend choice 1", "backend choice 2", ToString(p)>>,
     player_stats |-> [name |-> "Adventurer", health |-> 100 - 30 * p,
                       gold |-> 10 * p, level |-> p]]
\* Two sample payloads, so that one response can be told from another.
Payloads == {1, 2}

\* How a request can end: the promise rejects (no connection, or axios
\* rejecting a non-2xx status), or it resolves with a 2xx response whose
\* body is empty, carries success:false, carries no success field (the bare
\* shape) or carries success:true.
Outcomes == {"network-error", "non-2xx", "no-data", "success-false", "bare", "success-true"}

\* response.data && response.data.success
ResponseSuccess(outcome) == outcome = "success-true"

\* Indices a caller passes to makeChoice: the first and the last position of
\* a 3-entry choice list, and the nearest index out of range on either side.
ChoiceIndices == {-1, 0, 2, 3}

VARIABLES
    gameState,   \* useState(null): {story, choices, stats}
    isLoading,   \* useState(true)
    error,       \* useState(null)
    history,     \* useState([]): {story, choice, timestamp} entries
    sessionId,   \* useState(null)
    demoMode,    \* useState(false)
    inflight,    \* axios requests issued and not yet resolved, in issue order
    nextSid,     \* backend: next uuid of /api/start-game
    now,         \* new Date(): each reading is later than the one before
    last,        \* observation: the handler step taken last
    accepted,    \* observation: story and choice text at each makeChoice call
                 \* that went past its guards since a begin last completed
    succeeded,   \* observation: how many of those calls completed successfully
    screen,      \* the component that is mounted
    timers,      \* setTimeout callbacks that have not run yet
    newestBegin, \* observation: whether the startNewGame call made last is still
                 \* awaiting its answer, and else what its answer set
    \* App.js
    appGameState,    \* useState("welcome"): 'welcome', 'playing', 'loading'
    currentStory,    \* useState("")
    currentChoices,  \* useState([])
    playerStats,     \* useState(null)
    storyHistory,    \* useState([])
    toast,           \* the notice shown last by react-hot-toast
    \* PlayerStats: one stat entry and what is rendered for it
    statKey, statValue, statIcon, statColor,
    \* the adventure log: which log is rendered, its entries and the number
    \* in its "... and N earlier entries" line
    panel, shown, overflow

screenVars == <<gameState, isLoading, error, history, sessionId, demoMode,
                inflight, nextSid, now, last, accepted, succeeded>>
appVars == <<appGameState, currentStory, currentChoices, playerStats, storyHistory, toast>>
statsVars == <<statKey, statValue, statIcon, statColor>>
logVars == <<panel, shown, overflow>>

vars == <<screenVars, screen, timers, newestBegin, appVars, statsVars, logVars>>

\* The cells of a component that is not mounted, or not rendered yet.
NotRendered == "<none>"
\* No startNewGame call is awaiting its answer and none has been answered.
NoBegin == [pending |-> FALSE, sessionId |-> NullSid, demoMode |-> FALSE]
\* The startNewGame call made last is awaiting its answer.
PendingBegin == [pending |-> TRUE, sessionId |-> NullSid, demoMode |-> FALSE]
AppIdle ==
    /\ appGameState = "welcome"
    /\ currentStory = <<>>
    /\ currentChoices = <<>>
    /\ playerStats = NoStats
    /\ storyHistory = <<>>
    /\ toast = NotRendered
StatsIdle ==
    /\ statKey = <<>>
    /\ statValue = [type |-> "undefined", v |-> 0]
    /\ statIcon = NotRendered
    /\ statColor = NotRendered
LogIdle ==
    /\ panel = NotRendered
    /\ shown = <<>>
    /\ overflow = [rendered |-> FALSE, count |-> 0]

\* The body of an axios.post, and with it (observation only) the state the
\* handler left behind when it issued the request.
StartRequest ==
    [kind |-> "start-game", session_id |-> NullSid, choice_index |-> 0,
     atCall |-> [gameState |-> NullGameState, timestamp |-> 0]]
ChoiceRequest(sid, choiceIndex) ==
    [kind |-> "make-choice", session_id |-> sid, choice_index |-> choiceIndex,
     atCall |-> [gameState |-> gameState, timestamp |-> now]]

RemoveAt(s, k) == SubSeq(s, 1, k - 1) \o SubSeq(s, k + 1, Len(s))

\* A history entry that takes the choice at the displayed, 1-based number.
HistoryEntry_displayedNumber(choiceIndex) ==
    [story |-> gameState.story,
     choice |-> ChoiceAt(gameState.choices, choiceIndex + 1),
     timestamp |-> now]

\* The history entry both branches of makeChoice append.
HistoryEntry(choiceIndex) ==
    [story |-> gameState.story,
     choice |-> ChoiceAt(gameState.choices, choiceIndex),
     timestamp |-> now]

\* Observation: what a makeChoice call saw when it was made.
CallSnapshot(choiceIndex) ==
    [story |-> gameState.story, choice |-> ChoiceAt(gameState.choices, choiceIndex)]

\* The mode of the session as the screen presents it: the loading flag
\* first, then the demo flag, then the presence of a session.
Mode ==
    IF isLoading THEN "loading"
    ELSE IF demoMode THEN "demo"
    ELSE IF sessionId # NullSid THEN "live"
    ELSE IF error # NullErr THEN "error"
    ELSE "uninitialized"

(***************************************************************************)
(* startNewGame, up to the await: called by the mount effect and by the    *)
(* New Adventure button.                                                   *)
(***************************************************************************)
startNewGame ==
    /\ Len(inflight) < MaxInflight
    /\ isLoading' = TRUE
    /\ error' = NullErr
    /\ demoMode' = FALSE
    /\ inflight' = Append(inflight, StartRequest)
    /\ last' = [op |-> "startNewGame", idx |-> 0]
    /\ newestBegin' = PendingBegin
    /\ UNCHANGED <<gameState, history, sessionId, nextSid, now, accepted, succeeded>>
    /\ UNCHANGED <<screen, timers, appVars, statsVars, logVars>>

\* The component after mounting: the initial useState values and the
\* startNewGame call of the mount effect already made.
Init ==
    /\ gameState = NullGameState
    /\ isLoading = TRUE
    /\ error = NullErr
    /\ history = <<>>
    /\ sessionId = NullSid
    /\ demoMode = FALSE
    /\ inflight = <<StartRequest>>
    /\ nextSid = 1
    /\ now = 0
    /\ last = [op |-> "startNewGame", idx |-> 0]
    /\ accepted = <<>>
    /\ succeeded = 0
    /\ screen = "part_003"
    /\ timers = 0
    /\ newestBegin = PendingBegin
    /\ AppIdle /\ StatsIdle /\ LogIdle

(***************************************************************************)
(* startNewGame, from the await on: the request at position k of inflight  *)
(* resolves with the given outcome and payload.                            *)
(***************************************************************************)
\* A success branch that adopts the session id but not the payload.
startNewGameSuccess_keepsGameState(p) ==
    /\ sessionId' = nextSid
    /\ history' = <<>>
    /\ UNCHANGED <<gameState, demoMode, error>>

startNewGameSuccess(p) ==
    /\ gameState' = [isNull |-> FALSE, story |-> Payload(p).story,
                     choices |-> Payload(p).choices, stats |-> Payload(p).player_stats]
    /\ sessionId' = nextSid
    /\ history' = <<>>
    /\ UNCHANGED <<demoMode, error>>

\* A catch branch without the fallback: it reports the failure and leaves
\* the game state as it was.
startNewGameCatch_noFallback ==
    /\ error' = "Failed to connect to game server."
    /\ UNCHANGED <<demoMode, gameState, history, sessionId>>

startNewGameCatch ==
    /\ demoMode' = TRUE
    /\ gameState' = demoData
    /\ history' = <<>>
    /\ error' = NullErr
    /\ UNCHANGED sessionId

\* Observation: the request at position k is the start-game request issued
\* last among those in flight.
IsNewestBegin(k) ==
    \A j \in (k + 1)..Len(inflight) : inflight[j].kind # "start-game"

startNewGameResume(k, outcome, p) ==
    /\ k \in 1..Len(inflight)
    /\ inflight[k].kind = "start-game"
    /\ outcome \in {"success-true", "bare"} => nextSid <= MaxSessions
    /\ IF ResponseSuccess(outcome) THEN startNewGameSuccess(p) ELSE startNewGameCatch
    /\ isLoading' = FALSE
    /\ inflight' = RemoveAt(inflight, k)
    /\ nextSid' = IF outcome \in {"success-true", "bare"} THEN nextSid + 1 ELSE nextSid
    /\ last' = [op |-> IF ResponseSuccess(outcome) THEN "startNewGame-success"
                       ELSE "startNewGame-catch", idx |-> 0]
    /\ accepted' = <<>>
    /\ succeeded' = 0
    /\ newestBegin' = IF newestBegin.pending /\ IsNewestBegin(k)
                      THEN [pending |-> FALSE, sessionId |-> sessionId', demoMode |-> demoMode']
                      ELSE newestBegin
    /\ UNCHANGED now
    /\ UNCHANGED <<screen, timers, appVars, statsVars, logVars>>

(***************************************************************************)
(* makeChoice(choiceIndex), up to its return or its await.                 *)
(***************************************************************************)
\* A demo branch that shows the loading view while it synthesizes the story.
makeChoiceDemo_setsLoading(choiceIndex) ==
    /\ history' = Append(history, HistoryEntry(choiceIndex))
    /\ gameState' = [isNull |-> FALSE,
                     story |-> DemoNextStory(ChoiceAt(gameState.choices, choiceIndex)),
                     choices |-> DemoNextChoices,
                     stats |-> gameState.stats]
    /\ now' = now + 1
    /\ isLoading' = TRUE
    /\ UNCHANGED <<error, sessionId, demoMode, inflight>>

\* A demo branch that keeps only the newest entry of the history.
makeChoiceDemo_forgetsHistory(choiceIndex) ==
    /\ history' = <<HistoryEntry(choiceIndex)>>
    /\ gameState' = [isNull |-> FALSE,
                     story |-> DemoNextStory(ChoiceAt(gameState.choices, choiceIndex)),
                     choices |-> DemoNextChoices,
                     stats |-> gameState.stats]
    /\ now' = now + 1
    /\ UNCHANGED <<isLoading, error, sessionId, demoMode, inflight>>

makeChoiceDemo(choiceIndex) ==
    /\ history' = Append(history, HistoryEntry(choiceIndex))
    /\ gameState' = [isNull |-> FALSE,
                     story |-> DemoNextStory(ChoiceAt(gameState.choices, choiceIndex)),
                     choices |-> DemoNextChoices,
                     stats |-> gameState.stats]
    /\ now' = now + 1
    /\ UNCHANGED <<isLoading, error, sessionId, demoMode, inflight>>

makeChoiceNoSession ==
    /\ error' = "No active game session"
    /\ UNCHANGED <<gameState, isLoading, history, sessionId, demoMode, inflight, now>>

makeChoiceLive(choiceIndex) ==
    /\ Len(inflight) < MaxInflight
    /\ isLoading' = TRUE
    /\ history' = IF gameState.isNull THEN history
                  ELSE Append(history, HistoryEntry(choiceIndex))
    /\ now' = IF gameState.isNull THEN now ELSE now + 1
    /\ inflight' = Append(inflight, ChoiceRequest(sessionId, choiceIndex))
    /\ UNCHANGED <<gameState, error, sessionId, demoMode>>

\* Observation: the branch a makeChoice call takes in the current state.
MakeChoiceBranch ==
    IF demoMode THEN "makeChoice-demo"
    ELSE IF sessionId = NullSid THEN "makeChoice-no-session"
    ELSE "makeChoice-live"

makeChoice(choiceIndex) ==
    /\ choiceIndex \in ChoiceIndices
    /\ now < MaxClock
    /\ IF demoMode THEN makeChoiceDemo(choiceIndex)
       ELSE IF sessionId = NullSid THEN makeChoiceNoSession
       ELSE makeChoiceLive(choiceIndex)
    /\ last' = [op |-> MakeChoiceBranch, idx |-> choiceIndex]
    /\ accepted' = IF MakeChoiceBranch = "makeChoice-no-session" THEN accepted
                   ELSE Append(accepted, CallSnapshot(choiceIndex))
    /\ succeeded' = IF MakeChoiceBranch = "makeChoice-demo" THEN succeeded + 1
                    ELSE succeeded
    /\ UNCHANGED nextSid
    /\ UNCHANGED <<screen, newestBegin, timers, appVars, statsVars, logVars>>

(***************************************************************************)
(* makeChoice, from the await on.                                          *)
(***************************************************************************)
makeChoiceSuccess(p) ==
    /\ gameState' = [isNull |-> FALSE, story |-> Payload(p).story,
                     choices |-> Payload(p).choices, stats |-> Payload(p).player_stats]
    /\ error' = NullErr

makeChoiceCatch ==
    /\ error' = "Failed to process your choice. Please try again."
    /\ UNCHANGED gameState

\* A resume step that drops the response of a request issued under another
\* session than the current one.
makeChoiceResume_dropsStale(k, outcome, p) ==
    /\ k \in 1..Len(inflight)
    /\ inflight[k].kind = "make-choice"
    /\ IF inflight[k].session_id # sessionId THEN UNCHANGED <<gameState, error>>
       ELSE IF ResponseSuccess(outcome) THEN makeChoiceSuccess(p) ELSE makeChoiceCatch
    /\ isLoading' = FALSE
    /\ inflight' = RemoveAt(inflight, k)
    /\ last' = [op |-> IF ResponseSuccess(outcome) THEN "makeChoice-success"
                       ELSE "makeChoice-catch", idx |-> inflight[k].choice_index]
    /\ succeeded' = IF ResponseSuccess(outcome) THEN succeeded + 1 ELSE succeeded
    /\ UNCHANGED <<history, sessionId, demoMode, nextSid, now, accepted>>
    /\ UNCHANGED <<screen, newestBegin, timers, appVars, statsVars, logVars>>

\* A resume step whose failure branch leaves the loading flag set.
makeChoiceResume_catchKeepsLoading(k, outcome, p) ==
    /\ k \in 1..Len(inflight)
    /\ inflight[k].kind = "make-choice"
    /\ IF ResponseSuccess(outcome) THEN makeChoiceSuccess(p) ELSE makeChoiceCatch
    /\ isLoading' = IF ResponseSuccess(outcome) THEN FALSE ELSE isLoading
    /\ inflight' = RemoveAt(inflight, k)
    /\ last' = [op |-> IF ResponseSuccess(outcome) THEN "makeChoice-success"
                       ELSE "makeChoice-catch", idx |-> inflight[k].choice_index]
    /\ succeeded' = IF ResponseSuccess(outcome) THEN succeeded + 1 ELSE succeeded
    /\ UNCHANGED <<history, sessionId, demoMode, nextSid, now, accepted>>
    /\ UNCHANGED <<screen, newestBegin, timers, appVars, statsVars, logVars>>

makeChoiceResume(k, outcome, p) ==
    /\ k \in 1..Len(inflight)
    /\ inflight[k].kind = "make-choice"
    /\ IF ResponseSuccess(outcome) THEN makeChoiceSuccess(p) ELSE makeChoiceCatch
    /\ isLoading' = FALSE
    /\ inflight' = RemoveAt(inflight, k)
    /\ last' = [op |-> IF ResponseSuccess(outcome) THEN "makeChoice-success"
                       ELSE "makeChoice-catch", idx |-> inflight[k].choice_index]
    /\ succeeded' = IF ResponseSuccess(outcome) THEN succeeded + 1 ELSE succeeded
    /\ UNCHANGED <<history, sessionId, demoMode, nextSid, now, accepted>>
    /\ UNCHANGED <<screen, newestBegin, timers, appVars, statsVars, logVars>>

\* Only a response the handler accepts has its payload read.
PayloadsOf(outcome) == IF ResponseSuccess(outcome) THEN Payloads ELSE {1}

Next ==
    \/ \E k \in 1..MaxInflight, outcome \in Outcomes :
          \E p \in PayloadsOf(outcome) : startNewGameResume(k, outcome, p)
    \/ \E k \in 1..MaxInflight, outcome \in Outcomes :
          \E p \in PayloadsOf(outcome) : makeChoiceResume(k, outcome, p)
    \/ startNewGame
    \/ \E choiceIndex \in ChoiceIndices : makeChoice(choiceIndex)

Spec == Init /\ [][Next]_vars

\* The request at position k of inflight is answered, in whichever way.
ResolveAt(k) ==
    \E outcome \in Outcomes, p \in Payloads :
        startNewGameResume(k, outcome, p) \/ makeChoiceResume(k, outcome, p)

\* Every request that was issued is answered eventually.
FairSpec == Spec /\ \A k \in 1..MaxInflight : WF_vars(ResolveAt(k))

(***************************************************************************)
(* Properties of the screen with demo fallback.                            *)
(***************************************************************************)
\* The steps in which a begin finishes.
BeginFinished == {"startNewGame-success", "startNewGame-catch"}

\* An index that is no position of the current choice list.
InvalidIndex(i) == i < 0 \/ i >= Len(gameState.choices)

\* C1: whenever a begin has finished, by its success branch or by its catch
\* branch, the screen is live or demo, it offers exactly 3 choices and its
\* story is a non-empty text.
C1_BeginLeavesPlayableState ==
    last.op \in BeginFinished =>
        /\ Mode \in {"live", "demo"}
        /\ ~gameState.isNull
        /\ Len(gameState.choices) = 3
        /\ Len(gameState.story) > 0

\* A begin that could not start a game has finished in demo mode.
C1_Witness ==
    /\ last.op = "startNewGame-catch"
    /\ Mode = "demo"
    /\ gameState.choices = demoData.choices

\* C2: after a begin that failed, the screen is in demo mode with no session
\* id, the built-in demo scenario, an empty history and no error shown.
C2_FailedBeginIsCleanDemo ==
    last.op = "startNewGame-catch" =>
        /\ Mode = "demo"
        /\ demoMode
        /\ sessionId = NullSid
        /\ gameState = demoData
        /\ history = <<>>
        /\ error = NullErr

\* C3: a session id is present exactly in live mode: none in demo,
\* uninitialized or error mode nor while loading before the first start,
\* and always one in live mode.
C3_SessionIdIffLive ==
    /\ Mode \in {"demo", "uninitialized", "error"} => sessionId = NullSid
    /\ (Mode = "loading" /\ gameState.isNull) => sessionId = NullSid
    /\ Mode = "live" => sessionId # NullSid

\* C4: a choose with an index outside the choice list changes nothing of the
\* session state: no history entry, no request, same story, choices, stats,
\* session id, mode and loading flag.
C4_InvalidChoiceChangesNothing ==
    [][\A i \in ChoiceIndices :
          (InvalidIndex(i) /\ makeChoice(i)) =>
              UNCHANGED <<gameState, isLoading, history, sessionId, demoMode, inflight>>]_vars

\* C5: a choose received while the loading flag is set appends no history
\* entry and issues no request.
C5_ChooseWhileLoadingRejected ==
    [][\A i \in ChoiceIndices :
          (isLoading /\ makeChoice(i)) =>
              (history' = history /\ inflight' = inflight)]_vars

\* C6: at most one request issued by the screen is in flight at any moment.
C6_SingleRequestInFlight == Len(inflight) <= 1


\* C7: once no request is in flight, the history is as long as the number of
\* choose calls that completed successfully since the last begin finished
\* (stated for histories of choices made with valid indices).
C7_HistoryCountsSuccessfulChooses ==
    (inflight = <<>> /\ \A i \in 1..Len(history) : history[i].choice # Undefined)
        => Len(history) = succeeded

\* C7, amended: the history has one entry for every choose call that went
\* past the guards of makeChoice since the last begin finished, whether its
\* request later succeeded or failed, and entry i holds the story and the
\* choice text choices[choiceIndex] that were current at call i.
C7_HistoryRecordsAcceptedChooses ==
    /\ Len(history) = Len(accepted)
    /\ \A i \in 1..Len(history) :
          /\ history[i].story = accepted[i].story
          /\ history[i].choice = accepted[i].choice

\* Two choices were made in a live session, the second one failed, and the
\* two entries differ.
C7_Witness ==
    /\ last.op = "makeChoice-catch"
    /\ ~demoMode
    /\ Len(history) = 2
    /\ succeeded = 1
    /\ history[1].choice # Undefined
    /\ history[1].story # history[2].story
    /\ history[2].choice \in {"backend choice 1", "1", "2"}

\* C8: when a begin finishes, the history is empty, the loading flag is
\* cleared, and the session id is null or the id this response returned,
\* never the id of the session before.
C8_ResetDiscardsSession ==
    [][\A k \in 1..MaxInflight, outcome \in Outcomes, p \in Payloads :
          startNewGameResume(k, outcome, p) =>
              /\ history' = <<>>
              /\ ~isLoading'
              /\ sessionId' = IF ResponseSuccess(outcome) THEN nextSid ELSE NullSid
              /\ sessionId # NullSid => sessionId' # sessionId]_vars

\* C9: in demo mode a choose with a valid index appends exactly one entry
\* {current story, choices[i], timestamp}, replaces story and choices by the
\* pair synthesized from the chosen text, issues no request, never sets the
\* loading flag and stays in demo mode, also when a session id is present.
C9_DemoChooseIsLocal ==
    [][\A i \in ChoiceIndices :
          (demoMode /\ ~InvalidIndex(i) /\ makeChoice(i)) =>
              /\ history' = Append(history, [story |-> gameState.story,
                                             choice |-> gameState.choices[i + 1],
                                             timestamp |-> now])
              /\ gameState'.story =
                     <<"You chose: \"", gameState.choices[i + 1],
                       "\"\n\nThe adventure continues in demo mode...">>
              /\ gameState'.choices =
                     <<"Continue exploring", "Check your surroundings",
                       "Try something different">>
              /\ inflight' = inflight
              /\ ~isLoading /\ ~isLoading'
              /\ demoMode'
              /\ Mode' = "demo"
              /\ sessionId' = sessionId]_vars

\* A demo choice with a valid index was made while a session id is present.
C9_Witness ==
    /\ last.op = "makeChoice-demo"
    /\ last.idx \in {0, 2}
    /\ sessionId # NullSid
    /\ Len(history) >= 1

\* The entry a live choose appended before it issued the request req.
EntryAtCall(req) ==
    [story |-> req.atCall.gameState.story,
     choice |-> ChoiceAt(req.atCall.gameState.choices, req.choice_index),
     timestamp |-> req.atCall.timestamp]

\* C10: when a live choose (made with a valid index) fails, the error
\* message is set, the entry appended before the request is still in the
\* history, story, choices, stats and session id are as they were before
\* the call, the loading flag is cleared and the mode is live.
C10_FailedChooseKeepsState ==
    [][\A k \in 1..MaxInflight, outcome \in Outcomes :
          (/\ ~ResponseSuccess(outcome)
           /\ makeChoiceResume(k, outcome, 1)
           /\ inflight[k].choice_index \in {0, 2}) =>
              /\ error' = "Failed to process your choice. Please try again."
              /\ \E j \in 1..Len(history') : history'[j] = EntryAtCall(inflight[k])
              /\ gameState' = inflight[k].atCall.gameState
              /\ sessionId' = inflight[k].session_id
              /\ ~isLoading'
              /\ Mode' = "live"]_vars

\* The game state a response with payload p is turned into.
GameStateOf(p) ==
    [isNull |-> FALSE, story |-> Payload(p).story,
     choices |-> Payload(p).choices, stats |-> Payload(p).player_stats]

\* C11: a live choose with a valid index appends {story, choices[i], now},
\* sets loading and issues one make-choice request with the current session
\* id and i; when that request succeeds, story, choices and stats are those
\* of the response, error and loading are cleared, and the mode is live with
\* the session id the request carried.
C11_LiveChooseRoundTrip ==
    [][/\ \A i \in ChoiceIndices :
            (~demoMode /\ sessionId # NullSid /\ ~InvalidIndex(i) /\ makeChoice(i)) =>
                /\ history' = Append(history, [story |-> gameState.story,
                                               choice |-> gameState.choices[i + 1],
                                               timestamp |-> now])
                /\ isLoading'
                /\ Len(inflight') = Len(inflight) + 1
                /\ SubSeq(inflight', 1, Len(inflight)) = inflight
                /\ inflight'[Len(inflight')].kind = "make-choice"
                /\ inflight'[Len(inflight')].session_id = sessionId
                /\ inflight'[Len(inflight')].choice_index = i
       /\ \A k \in 1..MaxInflight, p \in Payloads :
            (makeChoiceResume(k, "success-true", p) /\ inflight[k].choice_index \in {0, 2}) =>
                /\ gameState' = GameStateOf(p)
                /\ error' = NullErr
                /\ ~isLoading'
                /\ Mode' = "live"
                /\ sessionId' = inflight[k].session_id]_vars

\* C12: a begin sets loading and issues one start-game request; when it
\* succeeds, the state holds the response's session id, story, choices and
\* stats, the history is empty, loading is cleared, demo mode is off and no
\* error is shown.
C12_BeginSuccessAdoptsResponse ==
    [][/\ startNewGame =>
            /\ isLoading'
            /\ Len(inflight') = Len(inflight) + 1
            /\ SubSeq(inflight', 1, Len(inflight)) = inflight
            /\ inflight'[Len(inflight')].kind = "start-game"
       /\ \A k \in 1..MaxInflight, p \in Payloads :
            startNewGameResume(k, "success-true", p) =>
                /\ sessionId' = nextSid
                /\ gameState' = GameStateOf(p)
                /\ history' = <<>>
                /\ ~isLoading'
                /\ ~demoMode'
                /\ error' = NullErr]_vars

\* C13: a 2xx response that carries story and choices is taken as a success,
\* in the bare shape as well as with success:true, and only a network
\* failure, a non-2xx status or success:false is taken as a failure.
C13_BareShapeIsSuccess ==
    [][\A k \in 1..MaxInflight, p \in Payloads :
          /\ \A outcome \in {"bare", "success-true"} :
                /\ startNewGameResume(k, outcome, p) => gameState' = GameStateOf(p)
                /\ makeChoiceResume(k, outcome, p) => gameState' = GameStateOf(p)
          /\ \A outcome \in {"network-error", "non-2xx", "success-false"} :
                /\ startNewGameResume(k, outcome, p) => gameState' = demoData
                /\ makeChoiceResume(k, outcome, p) => gameState' = gameState]_vars

\* C20: whenever the mode is live or demo and no request is in flight, the
\* choice list is not empty.
C20_ChoicesNonEmpty ==
    (Mode \in {"live", "demo"} /\ inflight = <<>>) => Len(gameState.choices) > 0

\* A live session is waiting for a choice after a choose that failed.
C20_Witness ==
    /\ Mode = "live"
    /\ inflight = <<>>
    /\ last.op = "makeChoice-catch"
    /\ Len(gameState.choices) = 3


\* A step of a begin: the call of startNewGame or the handling of its answer.
BeginStep ==
    /\ last'.op \in {"startNewGame", "startNewGame-success", "startNewGame-catch"}
    /\ \/ startNewGame
       \/ \E k \in 1..Len(inflight), outcome \in Outcomes, p \in Payloads :
             startNewGameResume(k, outcome, p)

\* C21: a step that is no step of a begin leaves history as it is or appends
\* exactly one entry to it, and history becomes empty only by a step of a
\* begin.
C21_HistoryAppendOnly ==
    [][/\ \/ history' = history
          \/ /\ Len(history') = Len(history) + 1
             /\ SubSeq(history', 1, Len(history)) = history
          \/ BeginStep
       /\ (history # <<>> /\ history' = <<>>) => BeginStep]_vars

C21_Witness ==
    /\ Len(history) = 2
    /\ history[1].timestamp < history[2].timestamp
    /\ last.op = "makeChoice-catch"

\* C22: no response is dropped for being stale. A begin leaves the requests
\* in flight where they are, and the answer of a make-choice request is
\* applied also when the request was issued under another session than the
\* current one: the story, choices and stats become those of the old
\* session's answer while sessionId and the demo flag stay those of the new
\* begin.
C22_StaleResponseApplied ==
    [][/\ startNewGame => SubSeq(inflight', 1, Len(inflight)) = inflight
       /\ \A k \in 1..Len(inflight), p \in Payloads :
             (/\ last'.op = "makeChoice-success"
              /\ inflight[k].session_id # sessionId
              /\ makeChoiceResume(k, "success-true", p)) =>
                 /\ gameState' = GameStateOf(p)
                 /\ UNCHANGED <<sessionId, demoMode>>]_vars

\* A second session has begun, no choice was made in it, and the story shown
\* is the answer to a choice of the first session.
C22_Witness ==
    /\ sessionId = 2
    /\ ~demoMode
    /\ accepted = <<>>
    /\ history = <<>>
    /\ last.op = "makeChoice-success"
    /\ inflight = <<>>


\* C23: once every startNewGame call has been answered, the session id and
\* the demo flag are those the answer to the call made last has set,
\* whatever the order in which the answers arrived.
C23_NewestBeginWins ==
    (/\ ~newestBegin.pending
     /\ \A k \in 1..Len(inflight) : inflight[k].kind # "start-game") =>
        /\ sessionId = newestBegin.sessionId
        /\ demoMode = newestBegin.demoMode


\* C24: whenever a start-game or make-choice request is in flight, the
\* loading flag is set.
C24_LoadingWhileInFlight ==
    (\E k \in 1..Len(inflight) : inflight[k].kind \in {"start-game", "make-choice"})
        => isLoading

\* C25: if every request is answered eventually, every state with the
\* loading flag set (which is where a begin and a live choose lead) is
\* followed by one with the flag cleared and a story and choices to show.
C25_LoadingEnds ==
    isLoading ~> (~isLoading /\ ~gameState.isNull /\ Len(gameState.choices) > 0)

C25_Witness ==
    /\ last.op = "makeChoice-catch"
    /\ ~isLoading
    /\ ~gameState.isNull
    /\ error # NullErr
    /\ inflight = <<>>


\* ---------------------------------------------------------------------------
\* PlayerStats (src/unnamed/part_001): the icon and the colour of a stat entry
\* ---------------------------------------------------------------------------

\* Stat keys are strings of characters, written one character per element so
\* that toLowerCase is computed and not assumed.
UpperCase == <<"A","B","C","D","E","F","G","H","I","J","K","L","M",
               "N","O","P","Q","R","S","T","U","V","W","X","Y","Z">>
LowerCase == <<"a","b","c","d","e","f","g","h","i","j","k","l","m",
               "n","o","p","q","r","s","t","u","v","w","x","y","z">>

ToLowerChar(c) ==
    IF \E i \in 1..26 : UpperCase[i] = c
    THEN LowerCase[CHOOSE i \in 1..26 : UpperCase[i] = c]
    ELSE c

toLowerCase(str) == [i \in 1..Len(str) |-> ToLowerChar(str[i])]

\* The largest numeric stat value drawn.
MaxStatValue == 101

\* What typeof distinguishes in a stat value: numbers, and the other values a
\* stats object holds (strings such as a name, arrays such as an inventory).
StatValues ==
    {[type |-> "number", v |-> n] : n \in 0..MaxStatValue}
        \cup {[type |-> "string", v |-> 0], [type |-> "object", v |-> 0]}

StatKeys ==
    { <<"h","p">>, <<"H","P">>, <<"H","p">>,
      <<"h","e","a","l","t","h">>, <<"H","e","a","l","t","h">>, <<"H","E","A","L","T","H">>,
      <<"g","o","l","d">>, <<"G","o","l","d">>,
      <<"c","o","i","n","s">>, <<"C","O","I","N","S">>,
      <<"d","e","f","e","n","s","e">>, <<"D","e","f","e","n","s","e">>,
      <<"a","r","m","o","r">>, <<"A","R","M","O","R">>,
      <<"s","t","r","e","n","g","t","h">>, <<"S","t","r","e","n","g","t","h">>,
      <<"a","t","t","a","c","k">>, <<"A","t","t","a","c","k">>,
      <<"m","a","n","a">>, <<"l","e","v","e","l">>, <<"h","p","2">>,
      <<"h","e","a","l","t","h","_","m","a","x">>, <<>> }

getStatIcon_caseSensitive(key) ==
    CASE key \in {<<"h","p">>, <<"h","e","a","l","t","h">>} -> "Heart"
      [] key \in {<<"g","o","l","d">>, <<"c","o","i","n","s">>} -> "Coins"
      [] key \in {<<"d","e","f","e","n","s","e">>, <<"a","r","m","o","r">>} -> "Shield"
      [] key \in {<<"s","t","r","e","n","g","t","h">>, <<"a","t","t","a","c","k">>} -> "Zap"
      [] OTHER -> "User"

getStatIcon(key) ==
    LET k == toLowerCase(key) IN
    CASE k \in {<<"h","p">>, <<"h","e","a","l","t","h">>} -> "Heart"
      [] k \in {<<"g","o","l","d">>, <<"c","o","i","n","s">>} -> "Coins"
      [] k \in {<<"d","e","f","e","n","s","e">>, <<"a","r","m","o","r">>} -> "Shield"
      [] k \in {<<"s","t","r","e","n","g","t","h">>, <<"a","t","t","a","c","k">>} -> "Zap"
      [] OTHER -> "User"

getStatColor_inclusiveThreshold(key, value) ==
    LET k == toLowerCase(key) IN
    CASE k \in {<<"h","p">>, <<"h","e","a","l","t","h">>} ->
            IF value.type = "number"
            THEN IF value.v >= 75 THEN "#4caf50"
                 ELSE IF value.v > 25 THEN "#ff9800"
                 ELSE "#f44336"
            ELSE "#4caf50"
      [] k \in {<<"g","o","l","d">>, <<"c","o","i","n","s">>} -> "#ffd700"
      [] OTHER -> "#e0c080"

getStatColor_throwsOnNonNumber(key, value) ==
    LET k == toLowerCase(key) IN
    CASE k \in {<<"h","p">>, <<"h","e","a","l","t","h">>} ->
            IF value.type = "number"
            THEN IF value.v > 75 THEN "#4caf50"
                 ELSE IF value.v > 25 THEN "#ff9800"
                 ELSE "#f44336"
            ELSE "<throws>"
      [] k \in {<<"g","o","l","d">>, <<"c","o","i","n","s">>} -> "#ffd700"
      [] OTHER -> "#e0c080"

getStatColor(key, value) ==
    LET k == toLowerCase(key) IN
    CASE k \in {<<"h","p">>, <<"h","e","a","l","t","h">>} ->
            IF value.type = "number"
            THEN IF value.v > 75 THEN "#4caf50"
                 ELSE IF value.v > 25 THEN "#ff9800"
                 ELSE "#f44336"
            ELSE "#4caf50"
      [] k \in {<<"g","o","l","d">>, <<"c","o","i","n","s">>} -> "#ffd700"
      [] OTHER -> "#e0c080"

\* One entry of Object.entries(player_stats) is rendered: its icon and its
\* colour are computed from the key and the value.
RenderStat ==
    /\ screen = "PlayerStats"
    /\ statIcon = NotRendered
    /\ statIcon' = getStatIcon(statKey)
    /\ statColor' = getStatColor(statKey, statValue)
    /\ UNCHANGED <<statKey, statValue, screen, newestBegin, timers, screenVars, appVars, logVars>>

\* The component re-renders with another entry.
NextStat ==
    /\ screen = "PlayerStats"
    /\ statIcon # NotRendered
    /\ \E key \in StatKeys, value \in StatValues :
          /\ statKey' = key
          /\ statValue' = value
    /\ statIcon' = NotRendered
    /\ statColor' = NotRendered
    /\ UNCHANGED <<screen, newestBegin, timers, screenVars, appVars, logVars>>

ScreenIdle ==
    /\ gameState = NullGameState
    /\ isLoading = FALSE
    /\ error = NullErr
    /\ history = <<>>
    /\ sessionId = NullSid
    /\ demoMode = FALSE
    /\ inflight = <<>>
    /\ nextSid = 1
    /\ now = 0
    /\ last = [op |-> NotRendered, idx |-> 0]
    /\ accepted = <<>>
    /\ succeeded = 0
    /\ timers = 0
    /\ newestBegin = NoBegin

InitStats ==
    /\ screen = "PlayerStats"
    /\ statKey \in StatKeys
    /\ statValue \in StatValues
    /\ statIcon = NotRendered
    /\ statColor = NotRendered
    /\ ScreenIdle /\ AppIdle /\ LogIdle

NextStats == RenderStat \/ NextStat

SpecStats == InitStats /\ [][NextStats]_vars

Rendered == statIcon # NotRendered

HealthSpellings ==
    { <<"h","p">>, <<"H","P">>, <<"H","p">>,
      <<"h","e","a","l","t","h">>, <<"H","e","a","l","t","h">>, <<"H","E","A","L","T","H">> }
CurrencySpellings ==
    { <<"g","o","l","d">>, <<"G","o","l","d">>, <<"c","o","i","n","s">>, <<"C","O","I","N","S">> }
DefenseSpellings ==
    { <<"d","e","f","e","n","s","e">>, <<"D","e","f","e","n","s","e">>,
      <<"a","r","m","o","r">>, <<"A","R","M","O","R">> }
OffenseSpellings ==
    { <<"s","t","r","e","n","g","t","h">>, <<"S","t","r","e","n","g","t","h">>,
      <<"a","t","t","a","c","k">>, <<"A","t","t","a","c","k">> }

\* C17: every stat key gets exactly one category, whatever its letter case:
\* hp/health are health (Heart), gold/coins currency (Coins), defense/armor
\* defense (Shield), strength/attack offense (Zap), every other key generic
\* (User).
C17_StatCategoryTotal ==
    Rendered =>
        statIcon = (CASE statKey \in HealthSpellings -> "Heart"
                      [] statKey \in CurrencySpellings -> "Coins"
                      [] statKey \in DefenseSpellings -> "Shield"
                      [] statKey \in OffenseSpellings -> "Zap"
                      [] OTHER -> "User")

C17_Witness ==
    /\ Rendered
    /\ statKey = <<"H","E","A","L","T","H">>
    /\ statIcon = "Heart"

\* C18: a numeric health value is shown nominal (green) above 75, caution
\* (orange) from 26 to 75 and critical (red) at 25 and below.
C18_HealthTiers ==
    (Rendered /\ statKey \in HealthSpellings /\ statValue.type = "number") =>
        /\ statValue.v > 75 => statColor = "#4caf50"
        /\ (statValue.v >= 26 /\ statValue.v <= 75) => statColor = "#ff9800"
        /\ statValue.v <= 25 => statColor = "#f44336"

C18_Witness ==
    /\ Rendered
    /\ statKey = <<"H","P">>
    /\ statValue = [type |-> "number", v |-> 75]
    /\ statColor = "#ff9800"

\* C19 as stated: the mapping always yields a presentation, the default one
\* for an unrecognized key, and for a health key with a non-numeric value a
\* neutral one that is none of the three tier presentations.
C19_NonNumericHealthIsNoTier ==
    Rendered =>
        /\ statColor \in {"#4caf50", "#ff9800", "#f44336", "#ffd700", "#e0c080"}
        /\ (statIcon = "User") => statColor = "#e0c080"
        /\ (statKey \in HealthSpellings /\ statValue.type # "number") =>
                statColor \notin {"#4caf50", "#ff9800", "#f44336"}

\* C19 (amended): the mapping always yields a presentation, the default one
\* for an unrecognized key; a health key with a non-numeric value gets the
\* fixed green of the nominal tier, whatever the value is.
C19_NonNumericHealthIsGreen ==
    Rendered =>
        /\ statColor \in {"#4caf50", "#ff9800", "#f44336", "#ffd700", "#e0c080"}
        /\ (statIcon = "User") => statColor = "#e0c080"
        /\ (statKey \in HealthSpellings /\ statValue.type # "number") =>
                statColor = "#4caf50"

C19_Witness ==
    /\ Rendered
    /\ statKey = <<"h","e","a","l","t","h">>
    /\ statValue.type = "string"
    /\ statColor = "#4caf50"


\* ---------------------------------------------------------------------------
\* The adventure log: HistoryPanel.jsx and the inline logs of the game screens
\* ---------------------------------------------------------------------------

\* The longest history drawn, and the largest offset of its first entry.
MaxLogLen == 12
MaxLogBase == 2

LogEntry(i) ==
    [story |-> <<"story", ToString(i)>>, choice |-> ToString(i), timestamp |-> i]

LogHistories ==
    {[i \in 1..n |-> LogEntry(b + i)] : n \in 0..MaxLogLen, b \in 0..MaxLogBase}

\* Array.prototype.slice(start): a copy from start to the end, a negative
\* start counting from the end and clamped to the array.
Slice(arr, start) ==
    LET len == Len(arr)
        from == IF start < 0
                THEN (IF len + start > 0 THEN len + start ELSE 0)
                ELSE (IF start < len THEN start ELSE len)
    IN  SubSeq(arr, from + 1, len)

\* Array.prototype.reverse(), applied to the copy slice made.
Reverse(arr) == [i \in 1..Len(arr) |-> arr[Len(arr) - i + 1]]

NoOverflowLine == [rendered |-> FALSE, count |-> 0]

\* HistoryPanel.jsx: the last 10 entries, newest first, and below them
\* "... and N earlier entries" when there are more than 10.
HistoryPanel ==
    /\ screen = "AdventureLog"
    /\ panel' = "HistoryPanel"
    /\ shown' = Reverse(Slice(history, -10))
    /\ overflow' = IF Len(history) > 10
                   THEN [rendered |-> TRUE, count |-> Len(history) - 10]
                   ELSE NoOverflowLine
    /\ UNCHANGED <<screenVars, screen, newestBegin, timers, appVars, statsVars>>

\* The inline log of the game screen of part_003: the last 5 entries, newest
\* first, and nothing else.
GameScreenLog ==
    /\ screen = "AdventureLog"
    /\ panel' = "GameScreen"
    /\ shown' = Reverse(Slice(history, -5))
    /\ overflow' = NoOverflowLine
    /\ UNCHANGED <<screenVars, screen, newestBegin, timers, appVars, statsVars>>

\* The inline log of SimpleGameScreen.jsx: the same.
SimpleGameScreenLog ==
    /\ screen = "AdventureLog"
    /\ panel' = "SimpleGameScreen"
    /\ shown' = Reverse(Slice(history, -5))
    /\ overflow' = NoOverflowLine
    /\ UNCHANGED <<screenVars, screen, newestBegin, timers, appVars, statsVars>>

InitLog ==
    /\ screen = "AdventureLog"
    /\ history \in LogHistories
    /\ gameState = NullGameState
    /\ isLoading = FALSE
    /\ error = NullErr
    /\ sessionId = NullSid
    /\ demoMode = FALSE
    /\ inflight = <<>>
    /\ nextSid = 1
    /\ now = 0
    /\ last = [op |-> NotRendered, idx |-> 0]
    /\ accepted = <<>>
    /\ succeeded = 0
    /\ timers = 0
    /\ newestBegin = NoBegin
    /\ AppIdle /\ StatsIdle /\ LogIdle

NextLog == HistoryPanel \/ GameScreenLog \/ SimpleGameScreenLog

SpecLog == InitLog /\ [][NextLog]_vars

Window == IF panel = "HistoryPanel" THEN 10 ELSE 5

\* C16: a rendered log shows exactly the last min(n, K) entries of the
\* history, newest first, and exposes the number max(n - K, 0) of hidden
\* entries (no overflow line when it is 0), with K = 10 in HistoryPanel and
\* K = 5 in the inline logs; rendering leaves the history as it was.
C16_WindowAndHiddenCount ==
    /\ [](panel # NotRendered =>
            LET n == Len(history)
                K == Window
                m == IF n < K THEN n ELSE K
            IN  /\ Len(shown) = m
                /\ \A j \in 1..m : shown[j] = history[n - j + 1]
                /\ (IF overflow.rendered THEN overflow.count ELSE 0) = (IF n > K THEN n - K ELSE 0))
    /\ [][history' = history]_vars


\* ---------------------------------------------------------------------------
\* The game screen without demo fallback (src/unnamed/part_001)
\* ---------------------------------------------------------------------------

\* The most save notices whose 3-second timer is pending or still to be set.
MaxTimers == 1

SaveRequest(sid) ==
    [kind |-> "save-game", session_id |-> sid, choice_index |-> 0,
     atCall |-> [gameState |-> NullGameState, timestamp |-> 0]]

PendingSaves == Cardinality({k \in 1..Len(inflight) : inflight[k].kind = "save-game"})

\* The component after mounting, the startNewGame call of the mount effect
\* already made.
P1_Init ==
    /\ screen = "part_001"
    /\ gameState = NullGameState
    /\ isLoading = TRUE
    /\ error = NullErr
    /\ history = <<>>
    /\ sessionId = NullSid
    /\ demoMode = FALSE
    /\ inflight = <<StartRequest>>
    /\ nextSid = 1
    /\ now = 0
    /\ last = [op |-> "startNewGame", idx |-> 0]
    /\ accepted = <<>>
    /\ succeeded = 0
    /\ timers = 0
    /\ newestBegin = NoBegin
    /\ AppIdle /\ StatsIdle /\ LogIdle

\* startNewGame up to the await.
P1_startNewGame ==
    /\ screen = "part_001"
    /\ Len(inflight) < MaxInflight
    /\ isLoading' = TRUE
    /\ error' = NullErr
    /\ inflight' = Append(inflight, StartRequest)
    /\ last' = [op |-> "startNewGame", idx |-> 0]
    /\ UNCHANGED <<gameState, history, sessionId, demoMode, nextSid, now, accepted, succeeded>>
    /\ UNCHANGED <<screen, newestBegin, timers, appVars, statsVars, logVars>>

\* A continuation whose catch branch also drops the session.
P1_startNewGameResume_catchDropsSession(k, outcome, p) ==
    /\ screen = "part_001"
    /\ k \in 1..Len(inflight)
    /\ inflight[k].kind = "start-game"
    /\ outcome \in {"success-true", "bare"} => nextSid <= MaxSessions
    /\ IF ResponseSuccess(outcome)
       THEN /\ gameState' = GameStateOf(p)
            /\ sessionId' = nextSid
            /\ history' = <<>>
            /\ UNCHANGED error
       ELSE /\ error' = "Failed to connect to game server. Please check if the backend is running on port 5000."
            /\ sessionId' = NullSid
            /\ UNCHANGED <<gameState, history>>
    /\ isLoading' = FALSE
    /\ inflight' = RemoveAt(inflight, k)
    /\ nextSid' = IF outcome \in {"success-true", "bare"} THEN nextSid + 1 ELSE nextSid
    /\ last' = [op |-> IF ResponseSuccess(outcome) THEN "startNewGame-success"
                       ELSE "startNewGame-catch", idx |-> 0]
    /\ UNCHANGED <<demoMode, now, accepted, succeeded>>
    /\ UNCHANGED <<screen, newestBegin, timers, appVars, statsVars, logVars>>

\* startNewGame from the await on. A body without data makes
\* response.data.success throw, which the catch handles like a rejection.
P1_startNewGameResume(k, outcome, p) ==
    /\ screen = "part_001"
    /\ k \in 1..Len(inflight)
    /\ inflight[k].kind = "start-game"
    /\ outcome \in {"success-true", "bare"} => nextSid <= MaxSessions
    /\ IF ResponseSuccess(outcome)
       THEN /\ gameState' = GameStateOf(p)
            /\ sessionId' = nextSid
            /\ history' = <<>>
            /\ UNCHANGED error
       ELSE /\ error' = "Failed to connect to game server. Please check if the backend is running on port 5000."
            /\ UNCHANGED <<gameState, sessionId, history>>
    /\ isLoading' = FALSE
    /\ inflight' = RemoveAt(inflight, k)
    /\ nextSid' = IF outcome \in {"success-true", "bare"} THEN nextSid + 1 ELSE nextSid
    /\ last' = [op |-> IF ResponseSuccess(outcome) THEN "startNewGame-success"
                       ELSE "startNewGame-catch", idx |-> 0]
    /\ UNCHANGED <<demoMode, now, accepted, succeeded>>
    /\ UNCHANGED <<screen, newestBegin, timers, appVars, statsVars, logVars>>

\* makeChoice(choiceIndex) up to its return or its await.
P1_makeChoice(choiceIndex) ==
    /\ screen = "part_001"
    /\ choiceIndex \in ChoiceIndices
    /\ now < MaxClock
    /\ IF sessionId = NullSid
       THEN /\ error' = "No active game session"
            /\ last' = [op |-> "makeChoice-no-session", idx |-> choiceIndex]
            /\ UNCHANGED <<isLoading, history, now, inflight>>
       ELSE /\ Len(inflight) < MaxInflight
            /\ isLoading' = TRUE
            /\ history' = IF gameState.isNull THEN history
                          ELSE Append(history, HistoryEntry(choiceIndex))
            /\ now' = IF gameState.isNull THEN now ELSE now + 1
            /\ inflight' = Append(inflight, ChoiceRequest(sessionId, choiceIndex))
            /\ last' = [op |-> "makeChoice-live", idx |-> choiceIndex]
            /\ UNCHANGED error
    /\ UNCHANGED <<gameState, sessionId, demoMode, nextSid, accepted, succeeded>>
    /\ UNCHANGED <<screen, newestBegin, timers, appVars, statsVars, logVars>>

\* makeChoice from the await on.
P1_makeChoiceResume(k, outcome, p) ==
    /\ screen = "part_001"
    /\ k \in 1..Len(inflight)
    /\ inflight[k].kind = "make-choice"
    /\ IF ResponseSuccess(outcome)
       THEN /\ gameState' = GameStateOf(p)
            /\ error' = NullErr
       ELSE /\ error' = "Failed to process your choice. Please try again."
            /\ UNCHANGED gameState
    /\ isLoading' = FALSE
    /\ inflight' = RemoveAt(inflight, k)
    /\ last' = [op |-> IF ResponseSuccess(outcome) THEN "makeChoice-success"
                       ELSE "makeChoice-catch", idx |-> inflight[k].choice_index]
    /\ UNCHANGED <<history, sessionId, demoMode, nextSid, now, accepted, succeeded>>
    /\ UNCHANGED <<screen, newestBegin, timers, appVars, statsVars, logVars>>

\* A saveGame that posts whether or not there is a session.
P1_saveGame_noSessionCheck ==
    /\ screen = "part_001"
    /\ Len(inflight) < MaxInflight
    /\ timers + PendingSaves < MaxTimers
    /\ inflight' = Append(inflight, SaveRequest(sessionId))
    /\ last' = [op |-> "saveGame", idx |-> 0]
    /\ UNCHANGED <<gameState, isLoading, error, history, sessionId, demoMode,
                   nextSid, now, accepted, succeeded>>
    /\ UNCHANGED <<screen, newestBegin, timers, appVars, statsVars, logVars>>

\* saveGame up to its return or its await.
P1_saveGame ==
    /\ screen = "part_001"
    /\ IF sessionId = NullSid
       THEN /\ last' = [op |-> "saveGame-no-session", idx |-> 0]
            /\ UNCHANGED inflight
       ELSE /\ Len(inflight) < MaxInflight
            /\ timers + PendingSaves < MaxTimers
            /\ inflight' = Append(inflight, SaveRequest(sessionId))
            /\ last' = [op |-> "saveGame", idx |-> 0]
    /\ UNCHANGED <<gameState, isLoading, error, history, sessionId, demoMode,
                   nextSid, now, accepted, succeeded>>
    /\ UNCHANGED <<screen, newestBegin, timers, appVars, statsVars, logVars>>

\* A saveGame that ends, as the other handlers do, by clearing the loading
\* flag.
P1_saveGameResume_clearsLoading(k, outcome) ==
    /\ screen = "part_001"
    /\ k \in 1..Len(inflight)
    /\ inflight[k].kind = "save-game"
    /\ CASE outcome = "success-true" ->
                /\ error' = "Game saved successfully!"
                /\ timers' = timers + 1
                /\ last' = [op |-> "saveGame-success", idx |-> 0]
         [] outcome \in {"network-error", "non-2xx", "no-data"} ->
                /\ error' = "Failed to save game"
                /\ last' = [op |-> "saveGame-catch", idx |-> 0]
                /\ UNCHANGED timers
         [] OTHER ->
                /\ last' = [op |-> "saveGame-ignored", idx |-> 0]
                /\ UNCHANGED <<error, timers>>
    /\ isLoading' = FALSE
    /\ inflight' = RemoveAt(inflight, k)
    /\ UNCHANGED <<gameState, history, sessionId, demoMode,
                   nextSid, now, accepted, succeeded>>
    /\ UNCHANGED <<screen, newestBegin, appVars, statsVars, logVars>>

\* saveGame from the await on: the notice and its 3-second timer on
\* success:true, the failure notice when the request or the reading of the
\* body throws, nothing for a body without success:true.
P1_saveGameResume(k, outcome) ==
    /\ screen = "part_001"
    /\ k \in 1..Len(inflight)
    /\ inflight[k].kind = "save-game"
    /\ CASE outcome = "success-true" ->
                /\ error' = "Game saved successfully!"
                /\ timers' = timers + 1
                /\ last' = [op |-> "saveGame-success", idx |-> 0]
         [] outcome \in {"network-error", "non-2xx", "no-data"} ->
                /\ error' = "Failed to save game"
                /\ last' = [op |-> "saveGame-catch", idx |-> 0]
                /\ UNCHANGED timers
         [] OTHER ->
                /\ last' = [op |-> "saveGame-ignored", idx |-> 0]
                /\ UNCHANGED <<error, timers>>
    /\ inflight' = RemoveAt(inflight, k)
    /\ UNCHANGED <<gameState, isLoading, history, sessionId, demoMode,
                   nextSid, now, accepted, succeeded>>
    /\ UNCHANGED <<screen, newestBegin, appVars, statsVars, logVars>>

\* setTimeout(() => setError(null), 3000) runs.
P1_saveNoticeTimeout ==
    /\ screen = "part_001"
    /\ timers > 0
    /\ error' = NullErr
    /\ timers' = timers - 1
    /\ last' = [op |-> "saveGame-timeout", idx |-> 0]
    /\ UNCHANGED <<gameState, isLoading, history, sessionId, demoMode, inflight,
                   nextSid, now, accepted, succeeded>>
    /\ UNCHANGED <<screen, newestBegin, appVars, statsVars, logVars>>

P1_Next ==
    \/ \E k \in 1..MaxInflight, outcome \in Outcomes :
          \E p \in PayloadsOf(outcome) : P1_startNewGameResume(k, outcome, p)
    \/ \E k \in 1..MaxInflight, outcome \in Outcomes :
          \E p \in PayloadsOf(outcome) : P1_makeChoiceResume(k, outcome, p)
    \/ \E k \in 1..MaxInflight, outcome \in Outcomes : P1_saveGameResume(k, outcome)
    \/ P1_saveNoticeTimeout
    \/ P1_startNewGame
    \/ \E choiceIndex \in ChoiceIndices : P1_makeChoice(choiceIndex)
    \/ P1_saveGame

P1_Spec == P1_Init /\ [][P1_Next]_vars


\* ---------------------------------------------------------------------------
\* The controller App.js (src/frontend/dungeonmaster/src/App.js). Its cells
\* sessionId and isLoading are the variables of the same name; its gameState
\* cell, a screen name, is appGameState.
\* ---------------------------------------------------------------------------

\* A gameApi call ends with its promise resolved with the response body or
\* rejected.
ApiOutcomes == {"resolve", "reject"}

ApiPayloadsOf(outcome) == IF outcome = "resolve" THEN Payloads ELSE {1}

ApiRequest(kind, sid, choiceIndex) ==
    [kind |-> kind, session_id |-> sid, choice_index |-> choiceIndex,
     atCall |-> [gameState |-> NullGameState, timestamp |-> 0]]

PendingOf(kind) == Cardinality({k \in 1..Len(inflight) : inflight[k].kind = kind})

\* The component after mounting: nothing is requested until the player
\* starts a game from the welcome screen.
App_Init ==
    /\ screen = "App.js"
    /\ sessionId = NullSid
    /\ isLoading = FALSE
    /\ inflight = <<>>
    /\ nextSid = 1
    /\ now = 0
    /\ last = [op |-> NotRendered, idx |-> 0]
    /\ gameState = NullGameState
    /\ error = NullErr
    /\ history = <<>>
    /\ demoMode = FALSE
    /\ accepted = <<>>
    /\ succeeded = 0
    /\ timers = 0
    /\ newestBegin = NoBegin
    /\ AppIdle /\ StatsIdle /\ LogIdle

\* startNewGame(playerName) up to the await.
App_startNewGame ==
    /\ screen = "App.js"
    /\ Len(inflight) < MaxInflight
    /\ isLoading' = TRUE
    /\ appGameState' = "loading"
    /\ inflight' = Append(inflight, ApiRequest("start-game", NullSid, 0))
    /\ last' = [op |-> "startNewGame", idx |-> 0]
    /\ UNCHANGED <<sessionId, nextSid, now, currentStory, currentChoices,
                   playerStats, storyHistory, toast>>
    /\ UNCHANGED <<gameState, error, history, demoMode, accepted, succeeded>>
    /\ UNCHANGED <<screen, newestBegin, timers, statsVars, logVars>>

\* startNewGame from the await on.
App_startNewGameResume(k, outcome, p) ==
    /\ screen = "App.js"
    /\ k \in 1..Len(inflight)
    /\ inflight[k].kind = "start-game"
    /\ IF outcome = "resolve"
       THEN /\ nextSid <= MaxSessions
            /\ sessionId' = nextSid
            /\ nextSid' = nextSid + 1
            /\ currentStory' = Payload(p).story
            /\ currentChoices' = Payload(p).choices
            /\ playerStats' = Payload(p).player_stats
            /\ storyHistory' = <<>>
            /\ appGameState' = "playing"
            /\ toast' = "Welcome! Your adventure begins..."
            /\ succeeded' = 0
            /\ last' = [op |-> "startNewGame-success", idx |-> 0]
       ELSE /\ toast' = "Failed to start game. Please try again."
            /\ appGameState' = "welcome"
            /\ last' = [op |-> "startNewGame-catch", idx |-> 0]
            /\ UNCHANGED <<sessionId, nextSid, currentStory, currentChoices,
                           playerStats, storyHistory, succeeded>>
    /\ isLoading' = FALSE
    /\ inflight' = RemoveAt(inflight, k)
    /\ UNCHANGED now
    /\ UNCHANGED <<gameState, error, history, demoMode, accepted>>
    /\ UNCHANGED <<screen, newestBegin, timers, statsVars, logVars>>

\* makeChoice(choiceIndex) up to its return or its await.
App_makeChoice(choiceIndex) ==
    /\ screen = "App.js"
    /\ choiceIndex \in ChoiceIndices
    /\ IF sessionId = NullSid
       THEN /\ last' = [op |-> "makeChoice-no-session", idx |-> choiceIndex]
            /\ UNCHANGED <<isLoading, inflight>>
       ELSE /\ Len(inflight) < MaxInflight
            /\ now + 2 * PendingOf("make-choice") < 2 * MaxClock
            /\ isLoading' = TRUE
            /\ inflight' = Append(inflight, ApiRequest("make-choice", sessionId, choiceIndex))
            /\ last' = [op |-> "makeChoice-live", idx |-> choiceIndex]
    /\ UNCHANGED <<sessionId, nextSid, now, appVars>>
    /\ UNCHANGED <<gameState, error, history, demoMode, accepted, succeeded>>
    /\ UNCHANGED <<screen, newestBegin, timers, statsVars, logVars>>

\* A continuation that records the player's action also when the request
\* failed.
App_makeChoiceResume_recordsFailure(k, outcome, p) ==
    /\ screen = "App.js"
    /\ k \in 1..Len(inflight)
    /\ inflight[k].kind = "make-choice"
    /\ IF outcome = "resolve"
       THEN /\ storyHistory' = storyHistory \o
                  << [type |-> "player", content |-> <<"player action", ToString(p)>>,
                      choices |-> <<>>, timestamp |-> now],
                     [type |-> "dm", content |-> Payload(p).story,
                      choices |-> Payload(p).choices, timestamp |-> now + 1] >>
            /\ now' = now + 2
            /\ currentStory' = Payload(p).story
            /\ currentChoices' = Payload(p).choices
            /\ playerStats' = Payload(p).player_stats
            /\ toast' = "The adventure continues..."
            /\ succeeded' = succeeded + 1
            /\ last' = [op |-> "makeChoice-success", idx |-> inflight[k].choice_index]
       ELSE /\ toast' = "Failed to process your choice. Please try again."
            /\ last' = [op |-> "makeChoice-catch", idx |-> inflight[k].choice_index]
            /\ storyHistory' = Append(storyHistory,
                  [type |-> "player", content |-> <<"player action">>,
                   choices |-> <<>>, timestamp |-> now])
            /\ UNCHANGED <<now, currentStory, currentChoices, playerStats, succeeded>>
    /\ isLoading' = FALSE
    /\ inflight' = RemoveAt(inflight, k)
    /\ UNCHANGED <<sessionId, nextSid, appGameState>>
    /\ UNCHANGED <<gameState, error, history, demoMode, accepted>>
    /\ UNCHANGED <<screen, newestBegin, timers, statsVars, logVars>>

\* makeChoice from the await on: the player's action and the answer of the
\* Dungeon Master are appended on success, each with its own reading of the
\* clock.
App_makeChoiceResume(k, outcome, p) ==
    /\ screen = "App.js"
    /\ k \in 1..Len(inflight)
    /\ inflight[k].kind = "make-choice"
    /\ IF outcome = "resolve"
       THEN /\ storyHistory' = storyHistory \o
                  << [type |-> "player", content |-> <<"player action", ToString(p)>>,
                      choices |-> <<>>, timestamp |-> now],
                     [type |-> "dm", content |-> Payload(p).story,
                      choices |-> Payload(p).choices, timestamp |-> now + 1] >>
            /\ now' = now + 2
            /\ currentStory' = Payload(p).story
            /\ currentChoices' = Payload(p).choices
            /\ playerStats' = Payload(p).player_stats
            /\ toast' = "The adventure continues..."
            /\ succeeded' = succeeded + 1
            /\ last' = [op |-> "makeChoice-success", idx |-> inflight[k].choice_index]
       ELSE /\ toast' = "Failed to process your choice. Please try again."
            /\ last' = [op |-> "makeChoice-catch", idx |-> inflight[k].choice_index]
            /\ UNCHANGED <<storyHistory, now, currentStory, currentChoices, playerStats,
                           succeeded>>
    /\ isLoading' = FALSE
    /\ inflight' = RemoveAt(inflight, k)
    /\ UNCHANGED <<sessionId, nextSid, appGameState>>
    /\ UNCHANGED <<gameState, error, history, demoMode, accepted>>
    /\ UNCHANGED <<screen, newestBegin, timers, statsVars, logVars>>

\* saveGame up to its return or its await.
App_saveGame ==
    /\ screen = "App.js"
    /\ IF sessionId = NullSid
       THEN /\ last' = [op |-> "saveGame-no-session", idx |-> 0]
            /\ UNCHANGED inflight
       ELSE /\ Len(inflight) < MaxInflight
            /\ inflight' = Append(inflight, ApiRequest("save-game", sessionId, 0))
            /\ last' = [op |-> "saveGame", idx |-> 0]
    /\ UNCHANGED <<sessionId, isLoading, nextSid, now, appVars>>
    /\ UNCHANGED <<gameState, error, history, demoMode, accepted, succeeded>>
    /\ UNCHANGED <<screen, newestBegin, timers, statsVars, logVars>>

\* saveGame from the await on: a toast either way.
App_saveGameResume(k, outcome) ==
    /\ screen = "App.js"
    /\ k \in 1..Len(inflight)
    /\ inflight[k].kind = "save-game"
    /\ IF outcome = "resolve"
       THEN /\ toast' = "Game saved successfully!"
            /\ last' = [op |-> "saveGame-success", idx |-> 0]
       ELSE /\ toast' = "Failed to save game. Please try again."
            /\ last' = [op |-> "saveGame-catch", idx |-> 0]
    /\ inflight' = RemoveAt(inflight, k)
    /\ UNCHANGED <<sessionId, isLoading, nextSid, now, appGameState, currentStory,
                   currentChoices, playerStats, storyHistory>>
    /\ UNCHANGED <<gameState, error, history, demoMode, accepted, succeeded>>
    /\ UNCHANGED <<screen, newestBegin, timers, statsVars, logVars>>

\* getPlayerStats up to its return or its await.
App_getPlayerStats ==
    /\ screen = "App.js"
    /\ IF sessionId = NullSid
       THEN /\ last' = [op |-> "getPlayerStats-no-session", idx |-> 0]
            /\ UNCHANGED inflight
       ELSE /\ Len(inflight) < MaxInflight
            /\ inflight' = Append(inflight, ApiRequest("get-stats", sessionId, 0))
            /\ last' = [op |-> "getPlayerStats", idx |-> 0]
    /\ UNCHANGED <<sessionId, isLoading, nextSid, now, appVars>>
    /\ UNCHANGED <<gameState, error, history, demoMode, accepted, succeeded>>
    /\ UNCHANGED <<screen, newestBegin, timers, statsVars, logVars>>

\* getPlayerStats from the await on.
App_getPlayerStatsResume(k, outcome, p) ==
    /\ screen = "App.js"
    /\ k \in 1..Len(inflight)
    /\ inflight[k].kind = "get-stats"
    /\ IF outcome = "resolve"
       THEN /\ playerStats' = Payload(p).player_stats
            /\ last' = [op |-> "getPlayerStats-success", idx |-> 0]
            /\ UNCHANGED toast
       ELSE /\ toast' = "Failed to retrieve player stats."
            /\ last' = [op |-> "getPlayerStats-catch", idx |-> 0]
            /\ UNCHANGED playerStats
    /\ inflight' = RemoveAt(inflight, k)
    /\ UNCHANGED <<sessionId, isLoading, nextSid, now, appGameState, currentStory,
                   currentChoices, storyHistory>>
    /\ UNCHANGED <<gameState, error, history, demoMode, accepted, succeeded>>
    /\ UNCHANGED <<screen, newestBegin, timers, statsVars, logVars>>

\* What endGame does after the session has been ended, or at once when
\* there is none.
App_endGameReset ==
    /\ sessionId' = NullSid
    /\ currentStory' = <<>>
    /\ currentChoices' = <<>>
    /\ playerStats' = NoStats
    /\ storyHistory' = <<>>
    /\ appGameState' = "welcome"
    /\ toast' = "Adventure ended. Thanks for playing!"
    /\ succeeded' = 0

\* endGame up to its await, or to its end when there is no session.
App_endGame ==
    /\ screen = "App.js"
    /\ IF sessionId = NullSid
       THEN /\ App_endGameReset
            /\ last' = [op |-> "endGame-done", idx |-> 0]
            /\ UNCHANGED inflight
       ELSE /\ Len(inflight) < MaxInflight
            /\ inflight' = Append(inflight, ApiRequest("end-session", sessionId, 0))
            /\ last' = [op |-> "endGame", idx |-> 0]
            /\ UNCHANGED <<sessionId, appVars, succeeded>>
    /\ UNCHANGED <<isLoading, nextSid, now>>
    /\ UNCHANGED <<gameState, error, history, demoMode, accepted>>
    /\ UNCHANGED <<screen, newestBegin, timers, statsVars, logVars>>

\* endGame from the await on: the rejection is only logged.
App_endGameResume(k) ==
    /\ screen = "App.js"
    /\ k \in 1..Len(inflight)
    /\ inflight[k].kind = "end-session"
    /\ App_endGameReset
    /\ last' = [op |-> "endGame-done", idx |-> 0]
    /\ inflight' = RemoveAt(inflight, k)
    /\ UNCHANGED <<isLoading, nextSid, now>>
    /\ UNCHANGED <<gameState, error, history, demoMode, accepted>>
    /\ UNCHANGED <<screen, newestBegin, timers, statsVars, logVars>>

App_Next ==
    \/ \E k \in 1..MaxInflight, outcome \in ApiOutcomes :
          \E p \in ApiPayloadsOf(outcome) : App_startNewGameResume(k, outcome, p)
    \/ \E k \in 1..MaxInflight, outcome \in ApiOutcomes :
          \E p \in ApiPayloadsOf(outcome) : App_makeChoiceResume(k, outcome, p)
    \/ \E k \in 1..MaxInflight, outcome \in ApiOutcomes : App_saveGameResume(k, outcome)
    \/ \E k \in 1..MaxInflight, outcome \in ApiOutcomes :
          \E p \in ApiPayloadsOf(outcome) : App_getPlayerStatsResume(k, outcome, p)
    \/ \E k \in 1..MaxInflight : App_endGameResume(k)
    \/ App_startNewGame
    \/ \E choiceIndex \in ChoiceIndices : App_makeChoice(choiceIndex)
    \/ App_saveGame
    \/ App_getPlayerStats
    \/ App_endGame

App_Spec == App_Init /\ [][App_Next]_vars


\* ---------------------------------------------------------------------------
\* The three variants of the screen together: one of them is mounted.
\* ---------------------------------------------------------------------------

ScreensInit == Init \/ P1_Init \/ App_Init

ScreensNext ==
    \/ (screen = "part_003" /\ Next)
    \/ P1_Next
    \/ App_Next

SpecScreens == ScreensInit /\ [][ScreensNext]_vars

\* The requests that name a session.
SessionScoped == {"make-choice", "save-game", "get-stats", "end-session"}

\* C14: while sessionId is null no step issues a request that names a
\* session, in any variant: a choose issues none and at most sets the
\* "No active game session" error (or, in demo mode, continues locally), and
\* a save issues none and changes nothing.
C14_NoSessionNoRequest ==
    [][sessionId = NullSid =>
          /\ Len(inflight') > Len(inflight) =>
                inflight'[Len(inflight')].kind \notin SessionScoped
          /\ \A i \in ChoiceIndices :
                /\ (makeChoice(i) /\ screen = "part_003") =>
                      /\ inflight' = inflight
                      /\ demoMode \/ (error' = "No active game session"
                                      /\ UNCHANGED <<gameState, history, isLoading>>)
                /\ P1_makeChoice(i) =>
                      /\ inflight' = inflight
                      /\ error' = "No active game session"
                      /\ UNCHANGED <<gameState, history, isLoading>>
                /\ App_makeChoice(i) =>
                      /\ inflight' = inflight
                      /\ UNCHANGED <<isLoading, appVars>>
          /\ (P1_saveGame \/ App_saveGame) =>
                UNCHANGED <<inflight, gameState, history, isLoading, error, appVars>>]_vars

C14_Witness ==
    /\ screen = "part_001"
    /\ sessionId = NullSid
    /\ last.op = "saveGame-no-session"
    /\ error # NullErr
    /\ inflight = <<>>

\* C15: no step of saveGame (the call, the handling of the answer, the
\* 3-second timer of the notice) changes story, choices, stats, history,
\* sessionId or the loading flag, whether the save succeeds or fails; it
\* only sets a notice.
C15_SaveKeepsGameState ==
    [][(\/ P1_saveGame
        \/ \E k \in 1..MaxInflight, outcome \in Outcomes : P1_saveGameResume(k, outcome)
        \/ P1_saveNoticeTimeout
        \/ App_saveGame
        \/ \E k \in 1..MaxInflight, outcome \in ApiOutcomes : App_saveGameResume(k, outcome))
       => UNCHANGED <<gameState, history, sessionId, isLoading, appGameState,
                      currentStory, currentChoices, playerStats, storyHistory>>]_vars

C15_Witness ==
    /\ screen = "part_001"
    /\ last.op = "saveGame-catch"
    /\ error = "Failed to save game"
    /\ sessionId # NullSid
    /\ ~gameState.isNull
    /\ isLoading


\* The answers that make startNewGame of part_001 fail: every one but a body
\* with success:true.
FailedOutcomes == Outcomes \ {"success-true"}

\* C26: in the screen of part_001 a startNewGame that fails leaves gameState,
\* sessionId and history as they were, at its call and when its answer is
\* handled; it only sets the error message and clears the loading flag.
C26_FailedBeginKeepsSession ==
    [][/\ P1_startNewGame => UNCHANGED <<gameState, sessionId, history>>
       /\ \A k \in 1..MaxInflight, outcome \in FailedOutcomes :
             P1_startNewGameResume(k, outcome, 1) =>
                 /\ UNCHANGED <<gameState, sessionId, history>>
                 /\ error' # NullErr
                 /\ ~isLoading']_vars

\* A New Adventure has failed and the session of before is still there.
C26_Witness ==
    /\ screen = "part_001"
    /\ last.op = "startNewGame-catch"
    /\ sessionId # NullSid
    /\ ~gameState.isNull
    /\ Len(history) > 0
    /\ error # NullErr

\* C29: when the 3-second timer of a successful saveGame runs, it removes
\* the "Game saved successfully!" notice and nothing else: an error message
\* set since then stays.
C29_TimerKeepsLaterError ==
    [][P1_saveNoticeTimeout =>
          \/ error = "Game saved successfully!"
          \/ error' = error]_vars

\* storyHistory is a "player" entry followed by a "dm" entry, once for each
\* make-choice request that succeeded since it was last emptied.
TwicePerSuccess ==
    screen = "App.js" =>
        /\ Len(storyHistory) = 2 * succeeded
        /\ \A i \in 1..Len(storyHistory) :
              storyHistory[i].type = (IF i % 2 = 1 THEN "player" ELSE "dm")

\* C27: in App.js storyHistory holds a "player" entry followed by a "dm"
\* entry for each make-choice request that succeeded since a game was last
\* started or ended; a successful request appends exactly these two and a
\* failed one leaves storyHistory, currentStory, currentChoices and
\* playerStats as they were.
C27_HistoryTwicePerSuccess ==
    /\ TwicePerSuccess
    /\ [][/\ TwicePerSuccess'
          /\ last'.op = "makeChoice-success" =>
               \A k \in 1..Len(inflight), p \in Payloads :
                   App_makeChoiceResume(k, "resolve", p) =>
                       /\ Len(storyHistory') = Len(storyHistory) + 2
                       /\ SubSeq(storyHistory', 1, Len(storyHistory)) = storyHistory
                       /\ storyHistory'[Len(storyHistory) + 1].type = "player"
                       /\ storyHistory'[Len(storyHistory) + 2].type = "dm"
          /\ last'.op = "makeChoice-catch" =>
               \A k \in 1..Len(inflight) :
                   App_makeChoiceResume(k, "reject", 1) =>
                       UNCHANGED <<storyHistory, currentStory, currentChoices, playerStats>>]_vars

C27_Witness ==
    /\ screen = "App.js"
    /\ last.op = "makeChoice-catch"
    /\ succeeded = 1
    /\ Len(storyHistory) = 2
    /\ storyHistory[1].type = "player"
    /\ storyHistory[2].type = "dm"


\* ---------------------------------------------------------------------------
\* The demo-only screen (src/frontend/dungeonmaster/src/components/
\* SimpleGameScreen.jsx). Its cells gameState, history and isLoading are the
\* variables of the same name.
\* ---------------------------------------------------------------------------

\* The most choices made in one behaviour of the demo-only screen.
MaxSimpleChoices == 4

\* const demoData of SimpleGameScreen.jsx
Simple_demoData ==
    [isNull |-> FALSE,
     story |-> <<"You stand at the entrance of a dark, ancient dungeon.">>,
     choices |-> <<"Step forward into the mysterious corridor",
                   "Examine the ancient runes carved into the wall",
                   "Call out to see if anyone else is nearby">>,
     stats |-> [name |-> "Brave Adventurer", health |-> 100, gold |-> 25,
                level |-> 1, experience |-> 0]]

Simple_Init ==
    /\ screen = "SimpleGameScreen.jsx"
    /\ gameState = Simple_demoData
    /\ history = <<>>
    /\ isLoading = FALSE
    /\ error = NullErr
    /\ sessionId = NullSid
    /\ demoMode = FALSE
    /\ inflight = <<>>
    /\ nextSid = 1
    /\ now = 0
    /\ last = [op |-> NotRendered, idx |-> 0]
    /\ accepted = <<>>
    /\ succeeded = 0
    /\ timers = 0
    /\ newestBegin = NoBegin
    /\ AppIdle /\ StatsIdle /\ LogIdle

\* A makeChoice that credits the experience only for a choice that exists.
Simple_makeChoice_validOnly(choiceIndex) ==
    /\ screen = "SimpleGameScreen.jsx"
    /\ choiceIndex \in ChoiceIndices
    /\ now < MaxSimpleChoices
    /\ history' = Append(history, HistoryEntry(choiceIndex))
    /\ now' = now + 1
    /\ gameState' =
          [isNull |-> FALSE,
           story |-> <<"You chose: \"", TemplateStr(ChoiceAt(gameState.choices, choiceIndex)),
                       "\"\n\nThe dungeon seems to respond to your decision.">>,
           choices |-> <<"Venture deeper into the shadows",
                         "Search for hidden treasures",
                         "Try to find a way back">>,
           stats |-> [gameState.stats EXCEPT
                        !.experience = IF ChoiceAt(gameState.choices, choiceIndex) = Undefined
                                       THEN @ ELSE @ + 10]]
    /\ last' = [op |-> "makeChoice-demo", idx |-> choiceIndex]
    /\ UNCHANGED <<isLoading, error, sessionId, demoMode, inflight, nextSid,
                   accepted, succeeded>>
    /\ UNCHANGED <<screen, newestBegin, timers, appVars, statsVars, logVars>>

\* makeChoice(choiceIndex): synchronous, it appends the history entry and
\* replaces the game state, the experience 10 higher.
Simple_makeChoice(choiceIndex) ==
    /\ screen = "SimpleGameScreen.jsx"
    /\ choiceIndex \in ChoiceIndices
    /\ now < MaxSimpleChoices
    /\ history' = Append(history, HistoryEntry(choiceIndex))
    /\ now' = now + 1
    /\ gameState' =
          [isNull |-> FALSE,
           story |-> <<"You chose: \"", TemplateStr(ChoiceAt(gameState.choices, choiceIndex)),
                       "\"\n\nThe dungeon seems to respond to your decision.">>,
           choices |-> <<"Venture deeper into the shadows",
                         "Search for hidden treasures",
                         "Try to find a way back">>,
           stats |-> [gameState.stats EXCEPT !.experience = @ + 10]]
    /\ last' = [op |-> "makeChoice-demo", idx |-> choiceIndex]
    /\ UNCHANGED <<isLoading, error, sessionId, demoMode, inflight, nextSid,
                   accepted, succeeded>>
    /\ UNCHANGED <<screen, newestBegin, timers, appVars, statsVars, logVars>>

\* startNewGame: the demo scenario again and an empty history.
Simple_startNewGame ==
    /\ screen = "SimpleGameScreen.jsx"
    /\ gameState' = Simple_demoData
    /\ history' = <<>>
    /\ last' = [op |-> "startNewGame", idx |-> 0]
    /\ UNCHANGED <<isLoading, error, sessionId, demoMode, inflight, nextSid, now,
                   accepted, succeeded>>
    /\ UNCHANGED <<screen, newestBegin, timers, appVars, statsVars, logVars>>

Simple_Next ==
    \/ \E choiceIndex \in ChoiceIndices : Simple_makeChoice(choiceIndex)
    \/ Simple_startNewGame

Simple_Spec == Simple_Init /\ [][Simple_Next]_vars

\* C28: in the demo-only screen the experience is always 10 times the length
\* of the history, the other stats are those of the demo data, and
\* startNewGame sets the experience to 0 and the history to empty in one
\* step.
C28_ExperienceTracksHistory ==
    /\ [](/\ gameState.stats.experience = 10 * Len(history)
          /\ gameState.stats.name = "Brave Adventurer"
          /\ gameState.stats.health = 100
          /\ gameState.stats.gold = 25
          /\ gameState.stats.level = 1)
    /\ [][Simple_startNewGame =>
             (gameState'.stats.experience = 0 /\ history' = <<>>)]_vars

C28_Witness ==
    /\ screen = "SimpleGameScreen.jsx"
    /\ Len(history) = 2
    /\ gameState.stats.experience = 20
    /\ last.op = "makeChoice-demo"
    /\ last.idx = 3

====
